---- MODULE Spec2Model ----
(***************************************************************************)
(* Full-page screenshot capture: the height probe (get_max_height), the    *)
(* capture strategist (get_screenshot and the cut-and-merge path) and the  *)
(* tile compositor (get_combined_screenshot).                              *)
(*                                                                         *)
(* Two implementations live in the repository and both are modelled:       *)
(*   impl = "handler" : BrowserHandler / ScreenshotHelper                  *)
(*   impl = "main"    : main.py / methods.py                               *)
(*                                                                         *)
(* One action is one remote round trip (height read, scroll, resize,       *)
(* capture) together with the local code that follows it up to the next    *)
(* remote call.  Every remote call may raise; RemoteFailure models that.   *)
(***************************************************************************)
EXTENDS Integers, Sequences, FiniteSets, TLC

(* ------------------------------ bounds --------------------------------- *)
\* heights a dynamic page may report: 0, HeightStep, ..., MaxHeightK*HeightStep
MaxHeightK == 5
HeightStep == 7500
\* outer minus inner window height of a session with toolbars (0 = headless)
ChromeH == 85
\* how far a captured image may fall short of the viewport height
Drift == 10
\* screenshot requests made one after the other on one session
MaxCalls == 2
\* tiles handed to the compositor when it is exercised on its own, and
\* their heights: TileStep, ..., MaxTileK*TileStep
MaxTiles == 3
MaxTileK == 3
TileStep == 50
\* a width handed to the compositor besides the configured ones
ExampleWidth == 800
\* urls handed to the worker pool of the batch driver
MaxUrls == 2
\* a height metric reports 0, MetricStep, ..., MaxMetricK*MetricStep
MaxMetricK == 2
MetricStep == 500
\* distinct values a successful lookup may hand back
MaxLookupValues == 5
\* the pre-scroll loop of the automation path: maximum_length_image is
\* AutoStep, ..., MaxAutoK*AutoStep, the heights read go one step further, the
\* viewport is 0 or ViewStep, ..., MaxViewK*ViewStep high, and the count of
\* loop passes stops at AutoPassCap
MaxAutoK == 4
AutoStep == 100
MaxViewK == 2
ViewStep == 150
AutoPassCap == 6

(* -------------------------- program constants --------------------------- *)
calculation_times == 5
window_height == 15000
HandlerDefaultHeight == 22000
HandlerDfWd == 980
HandlerDfHt == 1000
MainDefaultHeight == 15000
MainDfWd == 1366
MainDfHt == 900
CombineMargin == 150
MainCombineMargin == 150
RemainderExtra == 3500
\* the batch driver: ThreadPoolExecutor(max_workers=4) and the band of heights
\* it records, 15000 < max_height < 22000
max_workers == 4
LimitLow == 15000
LimitHigh == 22000
\* methods.get_max_height(wd, max_width=1367)
MethodsDefaultMaxWidth == 1367
\* retry = 3 of get_page_links, get_page_source and get_page_src_urls
LinksRetry == 3
SourceRetry == 3
SrcUrlsRetry == 3

(* ------------------------------ values ---------------------------------- *)
None == [kind |-> "none", w |-> 0, h |-> 0, decodable |-> FALSE, big |-> FALSE,
         pastes |-> <<>>]

Bytes(w, h, decodable, big, pastes) ==
    [kind |-> "bytes", w |-> w, h |-> h, decodable |-> decodable, big |-> big,
     pastes |-> pastes]

\* firstStable while no iteration has read the same height twice
NoStable == 0 - 1

Max2(a, b) == IF a >= b THEN a ELSE b

Heights == {k * HeightStep : k \in 0..MaxHeightK}
               \cup {HandlerDefaultHeight, MainDefaultHeight}

Impls == {"handler", "main"}

VARIABLES
    impl,          \* which implementation serves the session
    full,          \* option full of get_screenshot
    automation,    \* kwargs: crawl_ss_type differs from sc_capture_type
    hasDriver,     \* self.webdriver is not None
    page,          \* [kind, h]: a static page of natural height h, or a dynamic one
    chrome,        \* window.outerHeight - window.innerHeight of the session
    win,           \* [w, h]: outer window size
    scrollY,       \* vertical offset of the last scrollTo
    bodyH,         \* document.body.style.height in px (0: not set)
    pc,            \* position of the running request
    calls,         \* requests started so far
    max_height,    \* get_screenshot: max_height
    png_ss,        \* get_screenshot: png_ss
    path,          \* the branch get_screenshot took
    probe,         \* locals of the running get_max_height
    lastProbe,     \* what the last finished get_max_height returned
    cm,            \* locals of the cut-and-merge path
    captures,      \* get_screenshot_as_png calls of the running request
    mergeCalls,    \* calls of get_combined_screenshot of the running request
    mergeArgs,     \* [slices, width] of the last get_combined_screenshot call
    raised,        \* [kind, at]: the exception raised inside the request
    outcome,       \* "idle" | "running" | "returned" | "raised"
    result,        \* the value returned to the caller
    results,       \* outcomes of the finished requests, in order
    ops,           \* the remote calls get_screenshot and its paths have completed
    workerPc,      \* batch driver: position of process_screenshot for each url
    workerHeight,  \* batch driver: max_height of each process_screenshot
    pool_result,   \* batch driver: the module-level list result
    limit_file,    \* batch driver: the contents of limit_height_urls.json
    access,        \* which process_screenshot read or wrote result and the file
    metrics,       \* the six height metrics of the document at one height read
    reading,       \* what the height read returned for them
    lookup,        \* locals of a running get_page_links / _source / _src_urls
    auto_loop      \* locals of the pre-scroll loop of __get_screenshot_using_automation

\* the batch driver's state
poolVars == <<workerPc, workerHeight, pool_result, limit_file, access>>
\* one height read and one retried lookup, each exercised on its own
sideVars == <<metrics, reading, lookup, auto_loop>>
\* what get_screenshot never writes: its configuration, the batch driver and
\* the locals of the other methods
cfgVars == <<impl, full, automation, hasDriver, page, chrome, poolVars, sideVars>>
browserVars == <<win, scrollY, bodyH>>
countVars == <<captures, mergeCalls, mergeArgs>>
endVars == <<raised, outcome, result, results>>
vars == <<impl, full, automation, hasDriver, page, chrome, win, scrollY, bodyH,
          pc, calls, max_height, png_ss, path, probe, lastProbe, cm, captures,
          mergeCalls, mergeArgs, raised, outcome, result, results, ops,
          workerPc, workerHeight, pool_result, limit_file, access,
          metrics, reading, lookup, auto_loop>>

(* --------------------------- configuration ------------------------------ *)
df_wd == IF impl = "handler" THEN HandlerDfWd ELSE MainDfWd
df_ht == IF impl = "handler" THEN HandlerDfHt ELSE MainDfHt
default_height == IF impl = "handler" THEN HandlerDefaultHeight ELSE MainDefaultHeight

(* ----------------------------- the browser ------------------------------ *)
\* window.innerHeight: the outer height less the toolbars
innerHeight == Max2(win.h - chrome, 0)

\* what a static page reports as its height: its content, a forced body
\* height, or the viewport when that is taller
StaticHeight == Max2(Max2(page.h, bodyH), innerHeight)

\* the values a height read can return
Readings == IF page.kind = "static" THEN {StaticHeight} ELSE Heights

\* the pixel heights a capture of the current viewport can have
ImageHeights ==
    IF page.kind = "static" \/ innerHeight <= Drift
    THEN {innerHeight}
    ELSE {innerHeight, innerHeight - Drift}

NoProbe == [previous_max_height |-> 0, new_max_height |-> 0, max_height |-> 0,
            calculation_count |-> 0, df_ht |-> 0, caller |-> "none",
            firstStable |-> NoStable, allZero |-> TRUE, lastRead |-> 0,
            iterations |-> 0, window |-> [w |-> 0, h |-> 0]]

NoLastProbe == [value |-> 0, df_ht |-> 0, caller |-> "none", firstStable |-> NoStable,
                allZero |-> FALSE, lastRead |-> 0, exhausted |-> FALSE,
                calculation_count |-> 0]

NoCm == [max_height |-> 0, viewport |-> 0, max_ss_count |-> 0, ss_count |-> 0,
         offset |-> 0, slices |-> <<>>, remaining |-> 0, scroll_offset |-> 0,
         new_win_height |-> 0, invalid |-> 0]

NoRaise == [kind |-> "none", at |-> "none"]

NoArgs == [slices |-> <<>>, width |-> 0]

\* one completed remote call: its kind, its two arguments (or what it read)
\* and whether time.sleep follows it before the next remote call
Op(op, x, y, wait) == [op |-> op, x |-> x, y |-> y, wait |-> wait]

Urls == 1..MaxUrls

\* result = [{"name": "sdfdsf", ...}]: the one entry the module starts with
InitialResult == <<0>>

NoAccess == [o \in {"result", "limit_height_urls.json"} |->
                [readers |-> {}, writers |-> {}]]

\* the six metrics get_page_height reads
MetricNames == {"body.scrollHeight", "body.clientHeight", "body.offsetHeight",
                "documentElement.scrollHeight", "documentElement.clientHeight",
                "documentElement.offsetHeight"}

NoLookup == [fn |-> "none", retry |-> 0, value |-> [kind |-> "None", id |-> 0],
             attempts |-> 0, succeeded |-> 0, got |-> [kind |-> "None", id |-> 0],
             sleeps |-> 0, pc |-> "idle"]

\* orig_page_y_offset = None
NoOffset == 0 - 1

NoAuto == [maximum_length_image |-> 0, max_height |-> 0, offset |-> 0,
           view_port_height |-> 0, orig_page_y_offset |-> NoOffset,
           new_height |-> 0, win_height |-> 0, passes |-> 0, pc |-> "idle"]

\* no height read, no lookup and no pre-scroll loop is under way
SideIdle ==
    /\ metrics = [m \in MetricNames |-> 0]
    /\ reading = 0
    /\ lookup = NoLookup
    /\ auto_loop = NoAuto

\* the batch driver before any url is submitted
PoolIdle ==
    /\ workerPc = [u \in Urls |-> "queued"]
    /\ workerHeight = [u \in Urls |-> 0]
    /\ pool_result = InitialResult
    /\ limit_file = [content |-> <<>>, intact |-> TRUE]
    /\ access = NoAccess

Init ==
    /\ impl \in Impls
    /\ full \in BOOLEAN
    /\ automation \in (IF impl = "handler" THEN BOOLEAN ELSE {FALSE})
    /\ hasDriver \in (IF impl = "handler" THEN BOOLEAN ELSE {TRUE})
    /\ page \in {[kind |-> "dynamic", h |-> 0]}
                  \cup {[kind |-> "static", h |-> h] : h \in Heights}
    /\ chrome \in {0, ChromeH}
    /\ win = [w |-> 800, h |-> 600 + chrome]
    /\ scrollY = 0
    /\ bodyH = 0
    /\ pc = "idle"
    /\ calls = 0
    /\ max_height = 0
    /\ png_ss = None
    /\ path = "none"
    /\ probe = NoProbe
    /\ lastProbe = NoLastProbe
    /\ cm = NoCm
    /\ captures = 0
    /\ mergeCalls = 0
    /\ mergeArgs = NoArgs
    /\ raised = NoRaise
    /\ outcome = "idle"
    /\ result = None
    /\ results = <<>>
    /\ ops = <<>>
    /\ PoolIdle
    /\ SideIdle

(* ------------------------ how a request ends ---------------------------- *)
\* the request hands val to its caller (out = "returned") or lets an
\* exception escape (out = "raised")
Finish(out, val) ==
    /\ pc' = "done"
    /\ outcome' = out
    /\ result' = val
    /\ results' = Append(results, [outcome |-> out, value |-> val,
                                   raised |-> raised'.kind, path |-> path])

\* the except clause handing back an image as tall as the tiles captured so far
Except_partial(kind, at) ==
    /\ raised' = [kind |-> kind, at |-> at]
    /\ Finish("returned", Bytes(df_wd, cm.offset, TRUE, TRUE, <<>>))

\* get_screenshot: except Exception -> print, return png_ss
Except(kind, at) ==
    /\ raised' = [kind |-> kind, at |-> at]
    /\ Finish("returned", png_ss)

(* --------------------------- the height probe --------------------------- *)
\* get_max_height: the locals before the first loop test
get_max_height_entry(fallback, caller) ==
    [NoProbe EXCEPT !.df_ht = fallback, !.caller = caller, !.window = win]

\* BrowserHandler.get_max_height: the loop body from the second read on
BH_compare(p, r) ==
    IF r = p.previous_max_height
    THEN [p EXCEPT !.new_max_height = r, !.max_height = r]
    ELSE [p EXCEPT !.new_max_height = r, !.calculation_count = @ + 1]

\* the loop without its break: it runs until the count is used up
BH_loop_done_no_break(p, r) ==
    ~(p.calculation_count + 1 < calculation_times)

\* BrowserHandler.get_max_height: whether the loop is left after the compare
BH_loop_done(p, r) ==
    \/ r = p.previous_max_height
    \/ ~(p.calculation_count + 1 < calculation_times)

\* the return handing back the last reading when the loop found no stable one
BH_get_max_height_return_last(p) ==
    IF p.max_height # 0 THEN p.max_height
    ELSE IF p.new_max_height # 0 THEN p.new_max_height
    ELSE p.df_ht

\* BrowserHandler.get_max_height: the value returned after the loop
BH_get_max_height_return(p) ==
    IF p.max_height = 0 THEN p.df_ht ELSE p.max_height

\* methods.get_max_height: the loop body from the second read on
M_compare(p, r) ==
    IF r = p.previous_max_height
    THEN [p EXCEPT !.new_max_height = r, !.max_height = r]
    ELSE [p EXCEPT !.new_max_height = r]

\* methods.get_max_height: while True is left only through the break
M_loop_done(p, r) == r = p.previous_max_height

\* methods.get_max_height: the value returned
M_get_max_height_return(p) == p.max_height

\* what the probe has seen, kept beside its locals
Seen(p, r, stable) ==
    [p EXCEPT !.allZero = @ /\ r = 0,
              !.lastRead = r,
              !.firstStable = IF stable /\ @ = NoStable THEN r ELSE @]

\* the loop body is entered once more; the count stops one past calculation_times
Entered(p) ==
    [p EXCEPT !.iterations = IF @ <= calculation_times THEN @ + 1 ELSE @]

\* previous_max_height = __get_actual_height() / get_page_height(wd)
p_read1 ==
    /\ pc = "p_read1"
    /\ \E r \in Readings :
         probe' = Seen(Entered([probe EXCEPT !.previous_max_height = r]), r, FALSE)
    /\ pc' = IF impl = "main" THEN "p_resize" ELSE "p_scroll"
    /\ UNCHANGED <<cfgVars, ops, browserVars, calls, max_height, png_ss, path, lastProbe, cm,
                   countVars, endVars>>

\* the probe called without its width: max_width=1367 applies
M_probe_window_default(max_width, previous_max_height) ==
    [w |-> MethodsDefaultMaxWidth, h |-> previous_max_height]

\* methods.get_max_height(wd, max_width): the size it gives the window
M_probe_window(max_width, previous_max_height) ==
    [w |-> max_width, h |-> previous_max_height]

\* methods.get_max_height: wd.set_window_size(max_width, previous_max_height)
p_resize ==
    /\ pc = "p_resize"
    /\ win' = M_probe_window(df_wd, probe.previous_max_height)
    /\ pc' = "p_scroll"
    /\ UNCHANGED <<cfgVars, ops, scrollY, bodyH, calls, max_height, png_ss, path, probe,
                   lastProbe, cm, countVars, endVars>>

\* window.scrollTo(0, previous_max_height), then the settle delay
p_scroll ==
    /\ pc = "p_scroll"
    /\ scrollY' = probe.previous_max_height
    /\ pc' = "p_read2"
    /\ UNCHANGED <<cfgVars, ops, win, bodyH, calls, max_height, png_ss, path, probe, lastProbe,
                   cm, countVars, endVars>>

\* new_max_height = the second read, the comparison and the loop test
p_read2 ==
    /\ pc = "p_read2"
    /\ \E r \in Readings :
         LET stable == r = probe.previous_max_height
             done == IF impl = "handler" THEN BH_loop_done(probe, r)
                     ELSE M_loop_done(probe, r)
             p2 == IF impl = "handler" THEN BH_compare(probe, r)
                   ELSE M_compare(probe, r)
         IN /\ probe' = Seen(p2, r, stable)
            /\ pc' = IF done THEN "p_return" ELSE "p_read1"
    /\ UNCHANGED <<cfgVars, ops, browserVars, calls, max_height, png_ss, path, lastProbe, cm,
                   countVars, endVars>>

\* the value get_max_height hands back
ProbeValue(p) ==
    IF impl = "handler" THEN BH_get_max_height_return(p)
    ELSE M_get_max_height_return(p)

\* the record of a finished probe
ProbeRecord(p) ==
    [value |-> ProbeValue(p), df_ht |-> p.df_ht, caller |-> p.caller,
     firstStable |-> p.firstStable, allZero |-> p.allZero, lastRead |-> p.lastRead,
     exhausted |-> p.firstStable = NoStable,
     calculation_count |-> p.calculation_count]

(* ------------------------- the capture strategist ----------------------- *)
\* the threshold test written with < in place of <=
GS_strategy_strict(h) ==
    IF automation THEN "auto"
    ELSE IF h < default_height THEN "ss_chrome"
    ELSE "cm_probe"

\* get_screenshot: the branch taken once max_height is known
GS_strategy(h) ==
    IF automation THEN "auto"
    ELSE IF h <= default_height THEN "ss_chrome"
    ELSE "cm_probe"

\* the name of the branch that starts at a position
PathOf(at) ==
    IF at = "auto" THEN "auto" ELSE IF at = "ss_chrome" THEN "single" ELSE "tiled"

\* the cut-and-merge path once its own get_max_height has returned
BH_cm_after_probe(h) ==
    [NoCm EXCEPT !.max_height = h, !.viewport = window_height,
                 !.max_ss_count = h \div window_height]

M_cm_after_probe(h) == [NoCm EXCEPT !.max_height = h]

\* return max_height: back in the caller
p_return ==
    /\ pc = "p_return"
    /\ lastProbe' = ProbeRecord(probe)
    /\ probe' = NoProbe
    /\ IF probe.caller = "gs"
       THEN /\ max_height' = ProbeValue(probe)
            /\ pc' = GS_strategy(ProbeValue(probe))
            /\ path' = PathOf(GS_strategy(ProbeValue(probe)))
            /\ cm' = cm
       ELSE /\ max_height' = max_height
            /\ path' = path
            /\ cm' = IF impl = "handler" THEN BH_cm_after_probe(ProbeValue(probe))
                     ELSE M_cm_after_probe(ProbeValue(probe))
            /\ pc' = IF impl = "handler" THEN "cm_chrome" ELSE "cm_resize"
    /\ UNCHANGED <<cfgVars, ops, browserVars, calls, png_ss, countVars, endVars>>

\* requests explored on one session: MaxCalls against a static page, one
\* against a dynamic page
CallLimit == IF page.kind = "static" THEN MaxCalls ELSE 1

\* get_screenshot is called
get_screenshot ==
    /\ pc \in {"idle", "done"}
    /\ calls < CallLimit
    /\ calls' = calls + 1
    /\ max_height' = 0
    /\ png_ss' = None
    /\ lastProbe' = NoLastProbe
    /\ cm' = NoCm
    /\ captures' = 0
    /\ mergeCalls' = 0
    /\ mergeArgs' = NoArgs
    /\ raised' = IF hasDriver THEN NoRaise
                  ELSE [kind |-> "TypeError", at |-> "get_screenshot"]
    /\ result' = None
    /\ path' = IF hasDriver /\ ~full THEN "fixed" ELSE "none"
    /\ ops' = IF hasDriver /\ full
              THEN <<Op("get_max_height", IF impl = "handler" THEN df_ht ELSE 0, 0, FALSE)>>
              ELSE <<>>
    /\ IF ~hasDriver
       THEN \* raise TypeError("Webdriver object doesn't exist")
            /\ pc' = "done"
            /\ outcome' = "raised"
            /\ results' = Append(results, [outcome |-> "raised", value |-> None,
                                           raised |-> "TypeError", path |-> "none"])
            /\ probe' = NoProbe
       ELSE /\ outcome' = "running"
            /\ results' = results
            /\ IF full
               THEN /\ probe' = get_max_height_entry(
                                   IF impl = "handler" THEN df_ht ELSE 0, "gs")
                    /\ pc' = "p_read1"
               ELSE /\ probe' = NoProbe
                    /\ pc' = "fx_resize"
    /\ UNCHANGED <<cfgVars, browserVars>>

(* ---- fixed-height path ---- *)
\* the fixed-height path sizing the window to the threshold instead of user_ht
fx_window_threshold(max_width, user_ht) == [w |-> max_width, h |-> default_height]

\* max_height = user_ht; set_window_size(max_width, max_height)
fx_window(max_width, user_ht) == [w |-> max_width, h |-> user_ht]

\* max_height = user_ht; set_window_size(max_width, max_height); sleep
fx_resize ==
    /\ pc = "fx_resize"
    /\ max_height' = df_ht
    /\ win' = fx_window(df_wd, df_ht)
    /\ ops' = Append(ops, Op("resize", win'.w, win'.h, TRUE))
    /\ pc' = "fx_capture"
    /\ UNCHANGED <<cfgVars, scrollY, bodyH, calls, png_ss, path, probe, lastProbe, cm,
                   countVars, endVars>>

\* the byte strings get_screenshot_as_png can return for the current viewport
Captures ==
    {Bytes(win.w, h, TRUE, b, <<>>) : h \in ImageHeights, b \in BOOLEAN}
        \cup {Bytes(0, 0, FALSE, FALSE, <<>>)}

\* png_ss = get_screenshot_as_png() on the fixed-height and single-shot paths
gs_capture ==
    /\ pc \in {"fx_capture", "ss_capture"}
    /\ ops' = Append(ops, Op("capture", scrollY, win.h, FALSE))
    /\ \E b \in Captures : png_ss' = b
    /\ captures' = captures + 1
    /\ pc' = "gs_return"
    /\ UNCHANGED <<cfgVars, browserVars, calls, max_height, path, probe, lastProbe, cm,
                   mergeCalls, mergeArgs, endVars>>

(* ---- single-shot path ---- *)
\* the window sized to the page height alone, the toolbars left out
get_window_height_no_chrome(viewport, outer_minus_inner) == viewport

\* get_window_height(wd, viewport): viewport + (outerHeight - innerHeight)
get_window_height(viewport, outer_minus_inner) == viewport + outer_minus_inner

\* window_height = max_height + (window.outerHeight - window.innerHeight)
ss_chrome ==
    /\ pc = "ss_chrome"
    /\ ops' = Append(ops, Op("outer_minus_inner", 0, chrome, FALSE))
    /\ cm' = [NoCm EXCEPT !.new_win_height = get_window_height(max_height, chrome)]
    /\ pc' = "ss_resize"
    /\ UNCHANGED <<cfgVars, browserVars, calls, max_height, png_ss, path, probe, lastProbe,
                   countVars, endVars>>

\* set_window_size(max_width, window_height)
ss_resize ==
    /\ pc = "ss_resize"
    /\ ops' = Append(ops, Op("resize", df_wd, cm.new_win_height, impl = "main"))
    /\ win' = [w |-> df_wd, h |-> cm.new_win_height]
    /\ pc' = "ss_scroll_bottom"
    /\ UNCHANGED <<cfgVars, scrollY, bodyH, calls, max_height, png_ss, path, probe,
                   lastProbe, cm, countVars, endVars>>

\* window.scrollTo(max_width, max_height); sleep
ss_scroll_bottom ==
    /\ pc = "ss_scroll_bottom"
    /\ ops' = Append(ops, Op("scroll", df_wd, max_height, TRUE))
    /\ scrollY' = max_height
    /\ pc' = "ss_scroll_top"
    /\ UNCHANGED <<cfgVars, win, bodyH, calls, max_height, png_ss, path, probe, lastProbe,
                   cm, countVars, endVars>>

\* window.scrollTo(0, 0); sleep
ss_scroll_top ==
    /\ pc = "ss_scroll_top"
    /\ ops' = Append(ops, Op("scroll", 0, 0, TRUE))
    /\ scrollY' = 0
    /\ pc' = "ss_capture"
    /\ UNCHANGED <<cfgVars, win, bodyH, calls, max_height, png_ss, path, probe, lastProbe,
                   cm, countVars, endVars>>

(* ---- the end of get_screenshot ---- *)
\* ScreenshotHelper.is_valid_screenshot(p_object, size): truthy and larger than size
is_valid_screenshot(p_object) ==
    p_object.kind = "bytes" /\ p_object.big

\* BrowserHandler.get_screenshot: the check after the try block
BH_gs_valid(p) == is_valid_screenshot(p)

gs_return ==
    /\ pc = "gs_return"
    /\ IF impl = "handler" /\ ~BH_gs_valid(png_ss)
       THEN \* raise TypeError('Received an empty Screen shot object ...')
            /\ raised' = [kind |-> "TypeError", at |-> "gs_return"]
            /\ Finish("raised", None)
       ELSE /\ raised' = raised
            /\ Finish("returned", png_ss)
    /\ UNCHANGED <<cfgVars, ops, browserVars, calls, max_height, png_ss, path, probe, lastProbe,
                   cm, countVars>>

(* ---- a remote call raises ---- *)
RemotePcs ==
    {"p_read1", "p_resize", "p_scroll", "p_read2", "fx_resize", "fx_capture",
     "ss_chrome", "ss_resize", "ss_scroll_bottom", "ss_scroll_top", "ss_capture",
     "cm_chrome", "cm_resize", "cm_viewport", "cm_scroll", "cm_capture",
     "crs_body", "crs_chrome", "crs_resize", "crs_scroll", "crs_capture", "auto"}

\* the pending remote call raises; get_screenshot's except clause returns png_ss
RemoteFailure ==
    /\ pc \in RemotePcs
    /\ Except("remote", pc)
    /\ UNCHANGED <<cfgVars, ops, browserVars, calls, max_height, png_ss, path, probe, lastProbe,
                   cm, countVars>>

(* ---------------------------- the compositor ---------------------------- *)
\* total_image_height: the first loop of get_combined_screenshot
RECURSIVE TotalHeight(_, _)
TotalHeight(slices, k) ==
    IF k > Len(slices) THEN 0 ELSE slices[k] + TotalHeight(slices, k + 1)

\* the paste loop advancing by the first tile's height instead of each tile's own
RECURSIVE PasteLoop_nominal(_, _, _)
PasteLoop_nominal(slices, k, offset) ==
    IF k > Len(slices) THEN <<>>
    ELSE <<[h |-> slices[k], at |-> offset]>>
             \o PasteLoop_nominal(slices, k + 1, offset + slices[1])

\* the paste loop of ScreenshotHelper.get_combined_screenshot: each image is
\* pasted at offset, and offset advances by the image's height
RECURSIVE PasteLoop(_, _, _)
PasteLoop(slices, k, offset) ==
    IF k > Len(slices) THEN <<>>
    ELSE <<[h |-> slices[k], at |-> offset]>>
             \o PasteLoop(slices, k + 1, offset + slices[k])

\* the paste loop of methods.get_combined_screenshot
RECURSIVE M_PasteLoop(_, _, _)
M_PasteLoop(slices, k, offset) ==
    IF k > Len(slices) THEN <<>>
    ELSE <<[h |-> slices[k], at |-> offset]>>
             \o M_PasteLoop(slices, k + 1, offset + slices[k])

\* the compositor with a fixed image mode: an empty list gives a blank canvas
get_combined_screenshot_blank(slices, width) ==
    [error |-> "none", w |-> width,
     h |-> TotalHeight(slices, 1) + CombineMargin,
     pastes |-> PasteLoop(slices, 1, 0)]

\* ScreenshotHelper.get_combined_screenshot(slices, width): slices[0] of an
\* empty list raises IndexError
get_combined_screenshot(slices, width) ==
    IF Len(slices) = 0
    THEN [error |-> "IndexError", w |-> 0, h |-> 0, pastes |-> <<>>]
    ELSE [error |-> "none", w |-> width,
          h |-> TotalHeight(slices, 1) + CombineMargin,
          pastes |-> PasteLoop(slices, 1, 0)]

\* methods.get_combined_screenshot(slices, width): the except clause re-raises
M_get_combined_screenshot(slices, width) ==
    IF Len(slices) = 0
    THEN [error |-> "IndexError", w |-> 0, h |-> 0, pastes |-> <<>>]
    ELSE [error |-> "none", w |-> width,
          h |-> TotalHeight(slices, 1) + MainCombineMargin,
          pastes |-> M_PasteLoop(slices, 1, 0)]

\* ScreenshotHelper.get_combined_screenshot takes (slices, width); the call in
\* __get_screenshot_using_cut_and_merger passes (slices, width, offset)
BH_merge_call_arity == 3

get_combined_screenshot_arity == 2

(* --------------------------- cut and merge ------------------------------ *)
\* max_height = self.get_max_height() / get_max_height(wd, window_width)
cm_probe ==
    /\ pc = "cm_probe"
    /\ ops' = Append(ops, Op("get_max_height", 0, 0, FALSE))
    /\ probe' = get_max_height_entry(0, "cm")
    /\ pc' = "p_read1"
    /\ UNCHANGED <<cfgVars, browserVars, calls, max_height, png_ss, path, lastProbe, cm,
                   countVars, endVars>>

\* the remainder taken as the quotient instead of the rest of the division
remaining_page_height_quotient(total_height, win_height) ==
    total_height \div win_height

\* capture_remaining_section / capture_remaining_page: remaining_page_height
remaining_page_height(total_height, win_height) == total_height % win_height

\* the tile loop with <= in its test: one capture too many
cm_loop_off_by_one(c) ==
    IF c.ss_count <= c.max_ss_count THEN "cm_scroll"
    ELSE IF remaining_page_height(c.max_height, c.viewport) = 0 THEN "cm_merge"
    ELSE "crs_body"

\* the loop test of the tile loop and, once it fails, the entry of the
\* remainder step up to its first remote call
cm_loop(c) ==
    IF c.ss_count < c.max_ss_count THEN "cm_scroll"
    ELSE IF remaining_page_height(c.max_height, c.viewport) = 0 THEN "cm_merge"
    ELSE "crs_body"

\* BrowserHandler: new_window_height = window_height + (outerHeight - innerHeight)
cm_chrome ==
    /\ pc = "cm_chrome"
    /\ ops' = Append(ops, Op("outer_minus_inner", 0, chrome, FALSE))
    /\ cm' = [cm EXCEPT !.new_win_height = window_height + chrome]
    /\ pc' = "cm_resize"
    /\ UNCHANGED <<cfgVars, browserVars, calls, max_height, png_ss, path, probe, lastProbe,
                   countVars, endVars>>

\* set_window_size: to the tile window (handler) or to max_height (methods)
cm_resize ==
    /\ pc = "cm_resize"
    /\ ops' = Append(ops, Op("resize", df_wd,
                            IF impl = "handler" THEN cm.new_win_height ELSE cm.max_height,
                            impl = "main"))
    /\ win' = [w |-> df_wd,
               h |-> IF impl = "handler" THEN cm.new_win_height ELSE cm.max_height]
    /\ pc' = IF impl = "handler" THEN cm_loop(cm) ELSE "cm_viewport"
    /\ UNCHANGED <<cfgVars, scrollY, bodyH, calls, max_height, png_ss, path, probe,
                   lastProbe, cm, countVars, endVars>>

\* methods: viewport = window.innerHeight; max_ss_count = floor(max_height / viewport)
cm_viewport ==
    /\ pc = "cm_viewport"
    /\ ops' = Append(ops, Op("innerHeight", 0, innerHeight, FALSE))
    /\ IF innerHeight = 0
       THEN /\ Except("ZeroDivisionError", "cm_viewport")
            /\ cm' = [cm EXCEPT !.viewport = 0]
       ELSE LET c == [cm EXCEPT !.viewport = innerHeight,
                                !.max_ss_count = cm.max_height \div innerHeight]
            IN /\ cm' = c
               /\ pc' = cm_loop(c)
               /\ UNCHANGED endVars
    /\ UNCHANGED <<cfgVars, browserVars, calls, max_height, png_ss, path, probe, lastProbe,
                   countVars>>

\* window.scrollTo(scroll_x, offset); sleep
cm_scroll ==
    /\ pc = "cm_scroll"
    /\ ops' = Append(ops, Op("scroll", 0, cm.offset, TRUE))
    /\ scrollY' = cm.offset
    /\ pc' = "cm_capture"
    /\ UNCHANGED <<cfgVars, win, bodyH, calls, max_height, png_ss, path, probe, lastProbe,
                   cm, countVars, endVars>>

\* the tile loop advancing by the tile height instead of the image's height
cm_after_capture_nominal(c, h) ==
    [c EXCEPT !.offset = @ + c.viewport, !.slices = Append(@, h), !.ss_count = @ + 1]

\* the tile loop after the capture: offset += img.height; append; count += 1
cm_after_capture(c, h) ==
    [c EXCEPT !.offset = @ + h, !.slices = Append(@, h), !.ss_count = @ + 1]

\* the first capture of the tile loop that returned no bytes, or fewer than
\* is_valid_screenshot accepts, is remembered by its number
Invalid(c, bad, n) ==
    IF bad /\ c.invalid = 0 THEN [c EXCEPT !.invalid = n] ELSE c

\* img = Image.open(BytesIO(get_screenshot_as_png())) in the tile loop
cm_capture ==
    /\ pc = "cm_capture"
    /\ ops' = Append(ops, Op("capture", scrollY, win.h, FALSE))
    /\ captures' = captures + 1
    /\ \/ \E h \in ImageHeights, small \in BOOLEAN :
            \* the bytes decode, however few they are: the loop goes on
            LET c == Invalid(cm_after_capture(cm, h), small, captures')
            IN /\ cm' = c
               /\ pc' = cm_loop(c)
               /\ UNCHANGED endVars
       \/ \* the bytes are no image: Image.open raises
          /\ Except("UnidentifiedImageError", "cm_capture")
          /\ cm' = Invalid(cm, TRUE, captures')
    /\ UNCHANGED <<cfgVars, browserVars, calls, max_height, png_ss, path, probe, lastProbe,
                   mergeCalls, mergeArgs>>

\* the body height the remainder step forces
BH_forced_body_height(total_height, win_height) == total_height + win_height

M_forced_body_height(total_height, win_height) == total_height

\* the remainder scrolled to where the tile loop's offset stands
scroll_offset_sum(ss_chunks) == TotalHeight(ss_chunks, 1)

\* scroll_offset = ss_chunks[0].height * len(ss_chunks)
scroll_offset(ss_chunks) == ss_chunks[1] * Len(ss_chunks)

\* document.body.style.height = ...; scroll_offset = ss_chunks[0].height * len(ss_chunks)
crs_body ==
    /\ pc = "crs_body"
    /\ bodyH' = IF impl = "handler"
                THEN BH_forced_body_height(cm.max_height, cm.viewport)
                ELSE M_forced_body_height(cm.max_height, cm.viewport)
    /\ ops' = Append(ops, Op("body_height", 0, bodyH', FALSE))
    /\ IF Len(cm.slices) = 0
       THEN /\ Except("IndexError", "crs_body")
            /\ cm' = cm
       ELSE /\ cm' = [cm EXCEPT
                        !.remaining = remaining_page_height(cm.max_height, cm.viewport),
                        !.scroll_offset = scroll_offset(cm.slices)]
            /\ pc' = "crs_chrome"
            /\ UNCHANGED endVars
    /\ UNCHANGED <<cfgVars, win, scrollY, calls, max_height, png_ss, path, probe, lastProbe,
                   countVars>>

\* new_win_height = remaining_page_height + (outerHeight - innerHeight)
crs_chrome ==
    /\ pc = "crs_chrome"
    /\ ops' = Append(ops, Op("outer_minus_inner", 0, chrome, FALSE))
    /\ cm' = [cm EXCEPT !.new_win_height = cm.remaining + chrome]
    /\ pc' = "crs_resize"
    /\ UNCHANGED <<cfgVars, browserVars, calls, max_height, png_ss, path, probe, lastProbe,
                   countVars, endVars>>

\* the window height the remainder step asks for
BH_remainder_window(new_win_height) == new_win_height + RemainderExtra

M_remainder_window(new_win_height) == new_win_height

\* set_window_size(win_width, ...); sleep
crs_resize ==
    /\ pc = "crs_resize"
    /\ ops' = Append(ops, Op("resize", df_wd,
                            IF impl = "handler" THEN BH_remainder_window(cm.new_win_height)
                            ELSE M_remainder_window(cm.new_win_height),
                            TRUE))
    /\ win' = [w |-> df_wd,
               h |-> IF impl = "handler" THEN BH_remainder_window(cm.new_win_height)
                     ELSE M_remainder_window(cm.new_win_height)]
    /\ pc' = "crs_scroll"
    /\ UNCHANGED <<cfgVars, scrollY, bodyH, calls, max_height, png_ss, path, probe,
                   lastProbe, cm, countVars, endVars>>

\* window.scrollTo(scroll_x, scroll_offset); sleep
crs_scroll ==
    /\ pc = "crs_scroll"
    /\ ops' = Append(ops, Op("scroll", 0, cm.scroll_offset, TRUE))
    /\ scrollY' = cm.scroll_offset
    /\ pc' = "crs_capture"
    /\ UNCHANGED <<cfgVars, win, bodyH, calls, max_height, png_ss, path, probe, lastProbe,
                   cm, countVars, endVars>>

\* image = Image.open(...); return image; if last_image: slices.append(last_image)
crs_capture ==
    /\ pc = "crs_capture"
    /\ ops' = Append(ops, Op("capture", scrollY, win.h, FALSE))
    /\ captures' = captures + 1
    /\ \/ \E h \in ImageHeights :
            /\ cm' = [cm EXCEPT !.slices = Append(@, h)]
            /\ pc' = "cm_merge"
            /\ UNCHANGED endVars
       \/ /\ Except("UnidentifiedImageError", "crs_capture")
          /\ cm' = cm
    /\ UNCHANGED <<cfgVars, browserVars, calls, max_height, png_ss, path, probe, lastProbe,
                   mergeCalls, mergeArgs>>

\* width = [int(max_width)]; png_ss = get_combined_screenshot(slices, width[, offset])
cm_merge ==
    /\ pc = "cm_merge"
    /\ mergeCalls' = mergeCalls + 1
    /\ mergeArgs' = [slices |-> cm.slices, width |-> df_wd]
    /\ IF impl = "handler"
       THEN IF BH_merge_call_arity # get_combined_screenshot_arity
            THEN \* TypeError: takes 2 positional arguments but 3 were given
                 /\ Except("TypeError", "cm_merge")
                 /\ png_ss' = png_ss
            ELSE LET m == get_combined_screenshot(cm.slices, df_wd)
                 IN IF m.error # "none"
                    THEN Except(m.error, "cm_merge") /\ png_ss' = png_ss
                    ELSE /\ \E b \in BOOLEAN :
                              png_ss' = Bytes(m.w, m.h, TRUE, b, m.pastes)
                         /\ pc' = "gs_return"
                         /\ UNCHANGED endVars
       ELSE LET m == M_get_combined_screenshot(cm.slices, df_wd)
            IN IF m.error # "none"
               THEN Except(m.error, "cm_merge") /\ png_ss' = png_ss
               ELSE /\ \E b \in BOOLEAN :
                         png_ss' = Bytes(m.w, m.h, TRUE, b, m.pastes)
                    /\ pc' = "gs_return"
                    /\ UNCHANGED endVars
    /\ UNCHANGED <<cfgVars, ops, browserVars, calls, max_height, path, probe, lastProbe, cm,
                   captures>>

(* ------------------------- the automation path -------------------------- *)
\* __get_screenshot_using_automation: the browser's own "save full page",
\* read back from a file; it yields the file's bytes or None
auto ==
    /\ pc = "auto"
    /\ \E r \in {None} \cup {Bytes(df_wd, max_height, TRUE, b, <<>>) : b \in BOOLEAN} :
         png_ss' = r
    /\ pc' = "gs_return"
    /\ UNCHANGED <<cfgVars, ops, browserVars, calls, max_height, path, probe, lastProbe, cm,
                   countVars, endVars>>

(* ------------------------------ the system ------------------------------ *)
Next ==
    \/ get_screenshot
    \/ p_read1
    \/ p_resize
    \/ p_scroll
    \/ p_read2
    \/ p_return
    \/ fx_resize
    \/ ss_chrome
    \/ ss_resize
    \/ ss_scroll_bottom
    \/ ss_scroll_top
    \/ gs_capture
    \/ cm_probe
    \/ cm_chrome
    \/ cm_resize
    \/ cm_viewport
    \/ cm_scroll
    \/ cm_capture
    \/ crs_body
    \/ crs_chrome
    \/ crs_resize
    \/ crs_scroll
    \/ crs_capture
    \/ cm_merge
    \/ auto
    \/ gs_return
    \/ RemoteFailure

Spec == Init /\ [][Next]_vars

(* ------------------- the compositor exercised alone --------------------- *)
TileHeights == {k * TileStep : k \in 1..MaxTileK}

TileSeqs == UNION {[1..n -> TileHeights] : n \in 0..MaxTiles}

MergeWidths == {ExampleWidth, HandlerDfWd, MainDfWd}

InitMerge ==
    /\ impl \in Impls
    /\ full = TRUE
    /\ automation = FALSE
    /\ hasDriver = TRUE
    /\ page = [kind |-> "static", h |-> 0]
    /\ chrome = 0
    /\ win = [w |-> 800, h |-> 600]
    /\ scrollY = 0
    /\ bodyH = 0
    /\ pc = "merge_call"
    /\ calls = 0
    /\ max_height = 0
    /\ png_ss = None
    /\ path = "none"
    /\ probe = NoProbe
    /\ lastProbe = NoLastProbe
    /\ cm = NoCm
    /\ captures = 0
    /\ mergeCalls = 0
    /\ mergeArgs \in [slices : TileSeqs, width : MergeWidths]
    /\ raised = NoRaise
    /\ outcome = "idle"
    /\ result = None
    /\ results = <<>>
    /\ ops = <<>>
    /\ PoolIdle
    /\ SideIdle

\* merge(tiles, width): get_combined_screenshot applied to its two arguments
merge_call ==
    /\ pc = "merge_call"
    /\ LET m == IF impl = "handler"
                THEN get_combined_screenshot(mergeArgs.slices, mergeArgs.width)
                ELSE M_get_combined_screenshot(mergeArgs.slices, mergeArgs.width)
       IN IF m.error # "none"
          THEN /\ raised' = [kind |-> m.error, at |-> "merge_call"]
               /\ outcome' = "raised"
               /\ result' = None
          ELSE /\ raised' = raised
               /\ outcome' = "returned"
               /\ result' = Bytes(m.w, m.h, TRUE, TRUE, m.pastes)
    /\ pc' = "merge_done"
    /\ mergeCalls' = mergeCalls + 1
    /\ UNCHANGED <<cfgVars, ops, browserVars, calls, max_height, png_ss, path, probe,
                   lastProbe, cm, captures, mergeArgs, results>>

NextMerge == merge_call

SpecMerge == InitMerge /\ [][NextMerge]_vars

(* ----------------- the batch driver: process_screenshot ----------------- *)
\* everything a screenshot request owns; the batch driver calls only
\* get_max_height, on a session of its own
requestVars == <<impl, full, automation, hasDriver, page, chrome, win, scrollY, bodyH,
                 pc, calls, max_height, png_ss, path, probe, lastProbe, cm, captures,
                 mergeCalls, mergeArgs, raised, outcome, result, results, ops,
                 sideVars>>

\* the heights get_max_height(wd, 1336) hands to process_screenshot: the two
\* ends of the recorded band and one height inside it
PoolHeights == {LimitLow, (LimitLow + LimitHigh) \div 2, LimitHigh}

InitPool ==
    /\ impl = "main"
    /\ full = TRUE
    /\ automation = FALSE
    /\ hasDriver = TRUE
    /\ page = [kind |-> "static", h |-> 0]
    /\ chrome = 0
    /\ win = [w |-> 800, h |-> 600]
    /\ scrollY = 0
    /\ bodyH = 0
    /\ pc = "pool"
    /\ calls = 0
    /\ max_height = 0
    /\ png_ss = None
    /\ path = "none"
    /\ probe = NoProbe
    /\ lastProbe = NoLastProbe
    /\ cm = NoCm
    /\ captures = 0
    /\ mergeCalls = 0
    /\ mergeArgs = NoArgs
    /\ raised = NoRaise
    /\ outcome = "idle"
    /\ result = None
    /\ results = <<>>
    /\ ops = <<>>
    /\ PoolIdle
    /\ SideIdle

\* process_screenshot u touches an object of the module
Touch(o, u, reads, writes) ==
    [access EXCEPT ![o] =
        [readers |-> IF reads THEN @.readers \cup {u} ELSE @.readers,
         writers |-> IF writes THEN @.writers \cup {u} ELSE @.writers]]

\* process_screenshot instances holding limit_height_urls.json open, u left out
OtherWriters(u) == {v \in Urls \ {u} : workerPc[v] = "dump"}

\* executor.submit(process_screenshot, _url): a free worker takes the url,
\* starts its own Firefox and loads the page
ps_start(u) ==
    /\ workerPc[u] = "queued"
    /\ Cardinality({v \in Urls : workerPc[v] \notin {"queued", "done", "failed"}})
           < max_workers
    /\ workerPc' = [workerPc EXCEPT ![u] = "probe"]
    /\ UNCHANGED <<requestVars, workerHeight, pool_result, limit_file, access>>

\* max_height = get_max_height(wd, 1336); if 15000 < max_height < 22000
ps_get_max_height(u) ==
    /\ workerPc[u] = "probe"
    /\ \E h \in PoolHeights :
         /\ workerHeight' = [workerHeight EXCEPT ![u] = h]
         /\ workerPc' = [workerPc EXCEPT
                           ![u] = IF LimitLow < h /\ h < LimitHigh THEN "append"
                                  ELSE "quit"]
    /\ UNCHANGED <<requestVars, pool_result, limit_file, access>>

\* result.append({"name": ..., "value": ..., "page_height": max_height})
ps_append(u) ==
    /\ workerPc[u] = "append"
    /\ pool_result' = Append(pool_result, u)
    /\ access' = Touch("result", u, FALSE, TRUE)
    /\ workerPc' = [workerPc EXCEPT ![u] = "open"]
    /\ UNCHANGED <<requestVars, workerHeight, limit_file>>

\* with open("limit_height_urls.json", "w") as fp: the file is truncated
ps_open(u) ==
    /\ workerPc[u] = "open"
    /\ limit_file' = [content |-> <<>>, intact |-> TRUE]
    /\ access' = Touch("limit_height_urls.json", u, FALSE, TRUE)
    /\ workerPc' = [workerPc EXCEPT ![u] = "dump"]
    /\ UNCHANGED <<requestVars, workerHeight, pool_result>>

\* json.dump(result, fp) and the close of fp: the list is read and written
\* out; with a second handle open on the file the bytes of the two may mix
ps_dump(u) ==
    /\ workerPc[u] = "dump"
    /\ \E ok \in (IF OtherWriters(u) = {} THEN {TRUE} ELSE BOOLEAN) :
         limit_file' = [content |-> pool_result, intact |-> ok]
    /\ access' = [Touch("result", u, TRUE, FALSE) EXCEPT
                     !["limit_height_urls.json"] =
                        [@ EXCEPT !.writers = @ \cup {u}]]
    /\ workerPc' = [workerPc EXCEPT ![u] = "quit"]
    /\ UNCHANGED <<requestVars, workerHeight, pool_result>>

\* wd.quit()
ps_quit(u) ==
    /\ workerPc[u] = "quit"
    /\ workerPc' = [workerPc EXCEPT ![u] = "done"]
    /\ UNCHANGED <<requestVars, workerHeight, pool_result, limit_file, access>>

\* except Exception as e: print; raise e -- a remote call of the worker raised
ps_error(u) ==
    /\ workerPc[u] = "probe"
    /\ workerPc' = [workerPc EXCEPT ![u] = "failed"]
    /\ UNCHANGED <<requestVars, workerHeight, pool_result, limit_file, access>>

NextPool ==
    \E u \in Urls :
        \/ ps_start(u)
        \/ ps_get_max_height(u)
        \/ ps_append(u)
        \/ ps_open(u)
        \/ ps_dump(u)
        \/ ps_quit(u)
        \/ ps_error(u)

SpecPool == InitPool /\ [][NextPool]_vars

(* ------------------- one height read exercised alone -------------------- *)
\* a session on which no screenshot request and no batch is running
Aside ==
    /\ full = TRUE
    /\ automation = FALSE
    /\ page = [kind |-> "static", h |-> 0]
    /\ chrome = 0
    /\ win = [w |-> 800, h |-> 600]
    /\ scrollY = 0
    /\ bodyH = 0
    /\ calls = 0
    /\ max_height = 0
    /\ png_ss = None
    /\ path = "none"
    /\ probe = NoProbe
    /\ lastProbe = NoLastProbe
    /\ cm = NoCm
    /\ captures = 0
    /\ mergeCalls = 0
    /\ mergeArgs = NoArgs
    /\ raised = NoRaise
    /\ outcome = "idle"
    /\ result = None
    /\ results = <<>>
    /\ ops = <<>>
    /\ PoolIdle

\* all of the state but pc and the named side variable
asideVars == <<impl, full, automation, hasDriver, page, chrome, win, scrollY, bodyH,
               calls, max_height, png_ss, path, probe, lastProbe, cm, captures,
               mergeCalls, mergeArgs, raised, outcome, result, results, ops, poolVars>>

MetricValues == {k * MetricStep : k \in 0..MaxMetricK}

MaxOf(S) == CHOOSE x \in S : \A y \in S : x >= y

\* BrowserHandler.__get_actual_height: max([max_body_height, max_document_height])
get_actual_height(m) ==
    MaxOf({m["body.scrollHeight"], m["documentElement.scrollHeight"]})

\* methods.get_page_height: the max of the six metrics
get_page_height(m) == MaxOf({m[n] : n \in MetricNames})

InitHeight ==
    /\ impl \in Impls
    /\ hasDriver = TRUE
    /\ Aside
    /\ metrics \in [MetricNames -> MetricValues]
    \* an element's scrollHeight is never below its clientHeight
    /\ metrics["body.scrollHeight"] >= metrics["body.clientHeight"]
    /\ metrics["documentElement.scrollHeight"] >= metrics["documentElement.clientHeight"]
    /\ reading = 0
    /\ lookup = NoLookup
    /\ auto_loop = NoAuto
    /\ pc = "height_read"

\* one call of __get_actual_height / get_page_height
height_read ==
    /\ pc = "height_read"
    /\ reading' = IF impl = "handler" THEN get_actual_height(metrics)
                  ELSE get_page_height(metrics)
    /\ pc' = "height_done"
    /\ UNCHANGED <<asideVars, metrics, lookup, auto_loop>>

NextHeight == height_read

SpecHeight == InitHeight /\ [][NextHeight]_vars

(* ------------------------- the retried lookups -------------------------- *)
LookupFns == {"get_page_links", "get_page_source", "get_page_src_urls"}

\* retry = 3
lookup_retry(fn) ==
    IF fn = "get_page_links" THEN LinksRetry
    ELSE IF fn = "get_page_source" THEN SourceRetry
    ELSE SrcUrlsRetry

\* links = [] / page_source = None / src_urls = []
lookup_default(fn) ==
    IF fn = "get_page_source" THEN [kind |-> "None", id |-> 0]
    ELSE [kind |-> "list", id |-> 0]

\* what a successful attempt can hand back: a list (the empty one too), or
\* the page source
lookup_values(fn) ==
    IF fn = "get_page_source"
    THEN {[kind |-> "str", id |-> k] : k \in 1..MaxLookupValues}
    ELSE {[kind |-> "list", id |-> k] : k \in 0..MaxLookupValues}

\* the lookup going round once more after its retries are used up
lookup_loop_inclusive(retry) == retry >= 0

\* while retry > 0
lookup_loop(retry) == retry > 0

InitLookup ==
    /\ impl = "handler"
    /\ hasDriver \in BOOLEAN
    /\ Aside
    /\ metrics = [m \in MetricNames |-> 0]
    /\ reading = 0
    /\ lookup \in {[NoLookup EXCEPT !.fn = fn, !.retry = lookup_retry(fn),
                                    !.value = lookup_default(fn),
                                    !.got = lookup_default(fn), !.pc = "loop"]
                      : fn \in LookupFns}
    /\ auto_loop = NoAuto
    /\ pc = "lookup"

\* except Exception: log.error; retry -= 1 (get_page_source also sleeps 0.5 s)
lookup_except(l) ==
    [l EXCEPT !.attempts = @ + 1,
              !.retry = @ - 1,
              !.sleeps = IF l.fn = "get_page_source" THEN @ + 1 ELSE @,
              !.pc = IF lookup_loop(l.retry - 1) THEN "loop" ELSE "return"]

\* else: break, the variable holding what the attempt returned
lookup_else(l, v) ==
    [l EXCEPT !.attempts = @ + 1, !.value = v, !.succeeded = l.attempts + 1,
              !.got = v, !.pc = "return"]

\* one pass of the loop: execute_script / webdriver.page_source inside try;
\* with no webdriver the attempt raises (TypeError, AttributeError) like any other
lookup_attempt ==
    /\ pc = "lookup"
    /\ lookup.pc = "loop"
    /\ lookup_loop(lookup.retry)
    /\ \/ lookup' = lookup_except(lookup)
       \/ /\ hasDriver
          /\ \E v \in lookup_values(lookup.fn) : lookup' = lookup_else(lookup, v)
    /\ UNCHANGED <<asideVars, pc, metrics, reading, auto_loop>>

\* return links / page_source / src_urls
lookup_return ==
    /\ pc = "lookup"
    /\ lookup.pc = "return"
    /\ lookup' = [lookup EXCEPT !.pc = "returned"]
    /\ UNCHANGED <<asideVars, pc, metrics, reading, auto_loop>>

NextLookup ==
    \/ lookup_attempt
    \/ lookup_return

SpecLookup == InitLookup /\ [][NextLookup]_vars

(* ------------- the pre-scroll loop of the automation path --------------- *)
AutoLengths == {k * AutoStep : k \in 1..MaxAutoK}

\* the heights get_max_height and __get_actual_height hand to the loop
AutoHeights == {k * AutoStep : k \in 0..(MaxAutoK + 1)}

\* Math.max(document.documentElement.clientHeight || 0, window.innerHeight || 0)
ViewportHeights == {k * ViewStep : k \in 0..MaxViewK}

\* window.pageYOffset as the browser reports it after a scroll
PageYOffsets == {k * ViewStep : k \in 0..MaxViewK}

\* everything the loop leaves alone
autoFrame == <<impl, full, automation, hasDriver, page, chrome, bodyH,
               calls, max_height, png_ss, path, probe, lastProbe, cm, captures,
               mergeCalls, mergeArgs, raised, outcome, result, results, ops, poolVars,
               metrics, reading, lookup>>

InitAuto ==
    /\ impl = "handler"
    /\ hasDriver = TRUE
    /\ Aside
    /\ metrics = [m \in MetricNames |-> 0]
    /\ reading = 0
    /\ lookup = NoLookup
    /\ auto_loop \in {[NoAuto EXCEPT !.maximum_length_image = l, !.max_height = h,
                                     !.pc = "viewport"]
                         : l \in AutoLengths, h \in AutoHeights}
    /\ pc = "auto_loop"

\* if maximum_length_image < max_height: max_height = maximum_length_image
auto_clamp(maximum_length_image, h) ==
    IF maximum_length_image < h THEN maximum_length_image ELSE h

\* the loop taking every larger height it reads, whatever maximum_length_image
auto_grow_unbounded(maximum_length_image, h, new_height) ==
    IF h < new_height THEN new_height ELSE h

\* if max_height < new_height < maximum_length_image: max_height = new_height
auto_grow(maximum_length_image, h, new_height) ==
    IF h < new_height /\ new_height < maximum_length_image THEN new_height ELSE h

\* while offset < max_height: the body is entered once more, or the loop is left
auto_while(a) ==
    IF a.offset < a.max_height
    THEN [a EXCEPT !.pc = "scroll",
                   !.passes = IF @ < AutoPassCap THEN @ + 1 ELSE @]
    ELSE [a EXCEPT !.pc = "top"]

\* the clamp of max_height, offset = 0, the read of view_port_height and the
\* first loop test
auto_viewport ==
    /\ pc = "auto_loop"
    /\ auto_loop.pc = "viewport"
    /\ \E v \in ViewportHeights :
         auto_loop' = auto_while(
             [auto_loop EXCEPT
                 !.max_height = auto_clamp(auto_loop.maximum_length_image, @),
                 !.offset = 0,
                 !.view_port_height = v])
    /\ UNCHANGED <<autoFrame, pc, win, scrollY>>

\* window.scrollTo(scroll_x, offset); sleep
auto_scroll ==
    /\ pc = "auto_loop"
    /\ auto_loop.pc = "scroll"
    /\ scrollY' = auto_loop.offset
    /\ auto_loop' = [auto_loop EXCEPT !.pc = "page_y_offset"]
    /\ UNCHANGED <<autoFrame, pc, win>>

\* page_y_offset = window.pageYOffset; break when it has not moved
auto_page_y_offset ==
    /\ pc = "auto_loop"
    /\ auto_loop.pc = "page_y_offset"
    /\ \E y \in PageYOffsets :
         auto_loop' = IF auto_loop.orig_page_y_offset = y
                      THEN [auto_loop EXCEPT !.pc = "top"]
                      ELSE [auto_loop EXCEPT !.orig_page_y_offset = y,
                                             !.pc = "new_height"]
    /\ UNCHANGED <<autoFrame, pc, win, scrollY>>

\* new_height = self.__get_actual_height() and the update of max_height
auto_new_height ==
    /\ pc = "auto_loop"
    /\ auto_loop.pc = "new_height"
    /\ \E r \in AutoHeights :
         auto_loop' = [auto_loop EXCEPT
                          !.new_height = r,
                          !.max_height = auto_grow(auto_loop.maximum_length_image, @, r),
                          !.pc = "get_window_size"]
    /\ UNCHANGED <<autoFrame, pc, win, scrollY>>

\* win_height = self.webdriver.get_window_size().get('height')
auto_get_window_size ==
    /\ pc = "auto_loop"
    /\ auto_loop.pc = "get_window_size"
    /\ auto_loop' = [auto_loop EXCEPT !.win_height = win.h, !.pc = "set_window_size"]
    /\ UNCHANGED <<autoFrame, pc, win, scrollY>>

\* set_window_size(max_width, win_height); offset += view_port_height; the loop test
auto_set_window_size ==
    /\ pc = "auto_loop"
    /\ auto_loop.pc = "set_window_size"
    /\ win' = [w |-> df_wd, h |-> auto_loop.win_height]
    /\ auto_loop' = auto_while([auto_loop EXCEPT !.offset = @ + auto_loop.view_port_height])
    /\ UNCHANGED <<autoFrame, pc, scrollY>>

\* window.scrollTo(0, 0): the loop is over, the clicks and the capture follow
auto_top ==
    /\ pc = "auto_loop"
    /\ auto_loop.pc = "top"
    /\ scrollY' = 0
    /\ auto_loop' = [auto_loop EXCEPT !.pc = "buttons"]
    /\ UNCHANGED <<autoFrame, pc, win>>

\* the pending remote call raises: the exception leaves the function (the
\* clamp of max_height comes before the first remote call)
auto_raise ==
    /\ pc = "auto_loop"
    /\ auto_loop.pc \in {"viewport", "scroll", "page_y_offset", "new_height",
                         "get_window_size", "set_window_size", "top"}
    /\ auto_loop' = [auto_loop EXCEPT
                        !.max_height = IF auto_loop.pc = "viewport"
                                       THEN auto_clamp(auto_loop.maximum_length_image, @)
                                       ELSE @,
                        !.pc = "raised"]
    /\ UNCHANGED <<autoFrame, pc, win, scrollY>>

NextAuto ==
    \/ auto_viewport
    \/ auto_scroll
    \/ auto_page_y_offset
    \/ auto_new_height
    \/ auto_get_window_size
    \/ auto_set_window_size
    \/ auto_top
    \/ auto_raise

\* every step of the loop is a call that returns or raises
SpecAuto == InitAuto /\ [][NextAuto]_vars /\ WF_vars(NextAuto)

(* ============================== properties ============================== *)
\* a get_max_height call has returned and nothing has reset its record
ProbeReturned == lastProbe.caller # "none"

\* no remote call raised and every capture was an image
EnvironmentOk == raised.kind \notin {"remote", "UnidentifiedImageError"}

\* C1: when some iteration of get_max_height reads the same nonzero height v
\* before the scroll and after the settle delay, the call returns the v of the
\* first such iteration.
C1_StableHeightReturned ==
    (ProbeReturned /\ lastProbe.firstStable # NoStable /\ lastProbe.firstStable # 0)
        => lastProbe.value = lastProbe.firstStable

\* a probe that stabilised on a nonzero height after two failed iterations
C1_Witness ==
    /\ ProbeReturned
    /\ lastProbe.firstStable > 0
    /\ lastProbe.calculation_count >= 2
    /\ lastProbe.value = lastProbe.firstStable
    /\ lastProbe.value # lastProbe.df_ht

\* C2: when every height read of a get_max_height call is zero, the call
\* returns the fallback height of the request (df_ht of get_screenshot), in
\* both implementations and at every call site.
C2_AllZeroReturnsFallback ==
    (ProbeReturned /\ lastProbe.allZero) => lastProbe.value = df_ht

\* C3: when the iterations are used up without two equal reads, get_max_height
\* returns the last height it read, and the fallback only when that is zero.
C3_ExhaustedReturnsLastCandidate ==
    (ProbeReturned /\ lastProbe.exhausted)
        => lastProbe.value = (IF lastProbe.lastRead = 0 THEN lastProbe.df_ht
                              ELSE lastProbe.lastRead)

\* C4: a full-page request of the capture strategist (crawl_ss_type equal to
\* sc_capture_type) whose stabilized height is at most the threshold takes the
\* single-shot path, also when the two are equal; on that path the merge is
\* never called, and a request in which no remote call raises makes exactly
\* one capture call.
C4_SingleShotOneCapture ==
    /\ (path \in {"single", "tiled"}) =>
          (path = "single" <=> max_height <= default_height)
    /\ (path = "single") => (mergeCalls = 0 /\ captures <= 1)
    /\ (path = "single" /\ pc \in {"gs_return", "done"} /\ raised.kind # "remote")
          => captures = 1

\* a single-shot request at exactly the threshold that returned its one capture
C4_Witness ==
    /\ path = "single"
    /\ max_height = default_height
    /\ pc = "done"
    /\ outcome = "returned"
    /\ result.kind = "bytes"
    /\ captures = 1
    /\ mergeCalls = 0

RECURSIVE SumTo(_, _)
SumTo(slices, k) == IF k = 0 THEN 0 ELSE SumTo(slices, k - 1) + slices[k]

\* C6: merging a non-empty tile sequence at width w gives an image of width w
\* and height (sum of the tile heights + 150) in which the k-th tile is pasted
\* at the sum of the heights of the tiles before it.
C6_MergeGeometry ==
    (pc = "merge_done" /\ Len(mergeArgs.slices) > 0)
        => /\ outcome = "returned"
           /\ result.kind = "bytes"
           /\ result.w = mergeArgs.width
           /\ result.h = SumTo(mergeArgs.slices, Len(mergeArgs.slices)) + 150
           /\ Len(result.pastes) = Len(mergeArgs.slices)
           /\ \A k \in 1..Len(mergeArgs.slices) :
                /\ result.pastes[k].h = mergeArgs.slices[k]
                /\ result.pastes[k].at = SumTo(mergeArgs.slices, k - 1)

\* heights [100, 100, 50] at width 800: 800 x 400, the third tile at 200
C6_Witness ==
    /\ pc = "merge_done"
    /\ mergeArgs = [slices |-> <<100, 100, 50>>, width |-> 800]
    /\ result.w = 800
    /\ result.h = 400
    /\ result.pastes[3].at = 200

\* C7: merging an empty tile sequence ends in an error and returns no bytes.
C7_EmptyMergeFails ==
    (pc = "merge_done" /\ Len(mergeArgs.slices) = 0)
        => /\ outcome = "raised"
           /\ raised.kind # "none"
           /\ result = None

\* the merge of no tiles has raised
C7_Witness ==
    /\ pc = "merge_done"
    /\ mergeArgs.slices = <<>>
    /\ raised.kind = "IndexError"
    /\ outcome = "raised"

\* the tile heights of a composite, in paste order
RECURSIVE PastedHeights(_, _)
PastedHeights(pastes, k) ==
    IF k > Len(pastes) THEN <<>> ELSE <<pastes[k].h>> \o PastedHeights(pastes, k + 1)

\* C8: a full-page request whose stabilized height exceeds the threshold and in
\* which no remote call fails returns the bytes of the merge of exactly the
\* captured tiles, in capture order.
C8_TiledReturnsComposite ==
    (/\ pc = "done"
     /\ path = "tiled"
     /\ max_height > default_height
     /\ cm.max_height > default_height
     /\ EnvironmentOk)
        => /\ outcome = "returned"
           /\ result.kind = "bytes"
           /\ PastedHeights(result.pastes, 1) = cm.slices
           /\ Len(cm.slices) = captures

\* a finished request the environment did not disturb: the session had a
\* driver, no remote call raised and every capture was an image of plausible size
CleanCall(r) ==
    /\ r.raised \notin {"remote", "UnidentifiedImageError"}
    /\ ~(r.raised = "TypeError" /\ r.path # "tiled")
    /\ (r.value.kind = "bytes" => r.value.decodable)

\* C9: two full-page requests in a row against a static page, neither disturbed
\* by a remote failure, return images of the same width and height.
C9_TwoCallsSameDimensions ==
    (/\ page.kind = "static"
     /\ full
     /\ ~automation
     /\ Len(results) >= 2
     /\ CleanCall(results[1])
     /\ CleanCall(results[2]))
        => /\ results[1].value.kind = "bytes"
           /\ results[2].value.kind = "bytes"
           /\ results[1].value.w = results[2].value.w
           /\ results[1].value.h = results[2].value.h

\* the resizes, scrolls and captures of the tiled path
TiledRemoteOps ==
    {"cm_resize", "cm_scroll", "cm_capture", "crs_resize", "crs_scroll", "crs_capture"}

\* C10: when a resize, scroll or capture raises on the tiled path, the request ends with an
\* exception reaching its caller, not with a normal return.
C10_TiledFailureSurfaces ==
    (pc = "done" /\ path = "tiled" /\ raised.kind = "remote"
       /\ raised.at \in TiledRemoteOps)
        => outcome = "raised"

\* the two height reads and the scroll of one get_max_height iteration
ProbeRemoteOps == {"p_read1", "p_scroll", "p_read2"}

\* C11: when a height read or the scroll inside get_max_height raises, the
\* screenshot request ends with an exception reaching its caller; it does not
\* go on and it does not return.
C11_ProbeFailureSurfaces ==
    (raised.kind = "remote" /\ raised.at \in ProbeRemoteOps)
        => (pc = "done" /\ outcome = "raised")

\* C12: with full false, get_screenshot reads no height, scrolls nowhere and
\* merges nothing; its remote calls are the resize to (df_wd, df_ht) followed by
\* the settle delay and then one capture, and the bytes of that capture are
\* what it returns.
C12_FixedHeightPath ==
    /\ (path = "fixed")
          => /\ probe.caller = "none"
             /\ lastProbe.caller = "none"
             /\ mergeCalls = 0
             /\ captures <= 1
             /\ Len(ops) <= 2
             /\ \A k \in 1..Len(ops) : ops[k].op = (IF k = 1 THEN "resize" ELSE "capture")
             /\ (Len(ops) >= 1 => ops[1] = Op("resize", df_wd, df_ht, TRUE))
             /\ (Len(ops) = 2 => ops[2].y = df_ht /\ captures = 1)
    /\ (path = "fixed" /\ pc = "done" /\ raised.kind = "none")
          => /\ Len(ops) = 2
             /\ outcome = "returned"
             /\ result.kind = "bytes"
             /\ result = png_ss

\* a fixed-height request of the handler that returned its capture
C12_Witness ==
    /\ path = "fixed"
    /\ impl = "handler"
    /\ pc = "done"
    /\ outcome = "returned"
    /\ result.kind = "bytes"
    /\ result.h = df_ht - chrome
    /\ chrome = ChromeH
    /\ Len(ops) = 2

\* C13: get_max_height never enters its loop body more than max_iterations
\* (calculation_times) times, whatever heights it reads.
C13_ProbeIterationsBounded == probe.iterations <= calculation_times

C15_InvalidTileAborts ==
    (cm.invalid # 0)
        => /\ pc = "done"
           /\ outcome = "raised"
           /\ captures = cm.invalid
           /\ mergeCalls = 0

\* C16: no object of the batch driver is written by one process_screenshot and
\* read or written by another.
C16_NoSharedMutableState ==
    \A o \in DOMAIN access :
        \A u \in access[o].writers :
            (access[o].readers \cup access[o].writers) \subseteq {u}

\* C17: every capture of the tile loop is made with the page scrolled to the
\* sum of the pixel heights of the images captured before it (0 for the first).
C17_TileOffsetIsRunningSum ==
    (path = "tiled" /\ pc = "cm_capture")
        => /\ cm.ss_count = Len(cm.slices)
           /\ cm.offset = SumTo(cm.slices, Len(cm.slices))
           /\ scrollY = cm.offset

\* the second tile about to be captured after an image shorter than the tile height
C17_Witness ==
    /\ path = "tiled"
    /\ pc = "cm_capture"
    /\ Len(cm.slices) = 1
    /\ cm.slices[1] < cm.viewport
    /\ scrollY = cm.slices[1]
    /\ scrollY # cm.viewport

IsCapture(o) == o.op = "capture"

\* C19: on the tiled path every capture after the first, the remainder capture
\* included, is made at the scroll offset of the capture before it plus the
\* pixel height of the image that capture returned.
C19_CapturesContiguous ==
    (path = "tiled")
        => LET caps == SelectSeq(ops, IsCapture)
           IN \A k \in 2..Len(caps) :
                caps[k].x = caps[k - 1].x + cm.slices[k - 1]

IsPageOp(o) == o.op \in {"resize", "scroll", "capture"}

\* C20: on the single-shot path the resizes, scrolls and captures are, in
\* order: the resize to (df_wd, max_height + outer minus inner height), the
\* scroll to (df_wd, max_height) and the delay, the scroll to (0, 0) and the
\* delay, the capture; the capture is made with the page scrolled to the top
\* and the window max_height + outer minus inner height tall.
C20_SingleShotOrder ==
    /\ (path = "single" /\ pc = "ss_capture")
          => /\ scrollY = 0
             /\ win = [w |-> df_wd, h |-> max_height + chrome]
    /\ (path = "single" /\ captures = 1)
          => LET s == SelectSeq(ops, IsPageOp)
             IN /\ Len(s) = 4
                /\ s[1].op = "resize" /\ s[1].x = df_wd /\ s[1].y = max_height + chrome
                /\ s[2] = Op("scroll", df_wd, max_height, TRUE)
                /\ s[3] = Op("scroll", 0, 0, TRUE)
                /\ s[4] = Op("capture", 0, max_height + chrome, FALSE)

\* a single-shot request in a window with toolbars that returned its capture
C20_Witness ==
    /\ path = "single"
    /\ chrome = ChromeH
    /\ max_height > 0
    /\ pc = "done"
    /\ outcome = "returned"
    /\ captures = 1
    /\ result.kind = "bytes"

\* the scroll and the capture of the remainder step are about to be issued
RemainderPending == path = "tiled" /\ pc \in {"crs_scroll", "crs_capture"}

\* C21: when the remainder's scroll and capture are issued, the body height
\* has been forced to stabilized height + tile height.
C21_BodyHeightForced ==
    RemainderPending => bodyH = cm.max_height + cm.viewport

\* C22: when the first screenshot request of a session has finished, normally
\* or with an error, document.body.style.height is what it was before the
\* request: not set.
C22_BodyHeightRestored ==
    (pc = "done" /\ calls = 1) => bodyH = 0

\* C23: when the remainder's scroll and capture are issued, the window has the
\* configured width and is strictly taller than remainder + outer minus inner
\* height.
C23_RemainderWindowHasMargin ==
    RemainderPending
        => /\ win.w = df_wd
           /\ win.h > cm.remaining + chrome

IsBodyHeight(o) == o.op = "body_height"

IsResize(o) == o.op = "resize"

IsScroll(o) == o.op = "scroll"

\* C24: when the stabilized height is an exact multiple of the tile height,
\* the merge is reached with floor(H/T) tiles and the remainder step has made
\* no remote call: the body height was not set, the only resize is the one
\* before the tile loop, and there is one scroll and one capture per tile.
C24_ExactMultipleSkipsRemainder ==
    (/\ path = "tiled"
     /\ (pc = "cm_merge" \/ mergeCalls > 0)
     /\ cm.max_height % cm.viewport = 0)
        => /\ Len(cm.slices) = cm.max_height \div cm.viewport
           /\ SelectSeq(ops, IsBodyHeight) = <<>>
           /\ (calls = 1 => bodyH = 0)
           /\ Len(SelectSeq(ops, IsResize)) = 1
           /\ Len(SelectSeq(ops, IsScroll)) = Len(cm.slices)
           /\ Len(SelectSeq(ops, IsCapture)) = Len(cm.slices)
           /\ (Len(ops) > 0 /\ Len(cm.slices) > 0 => ops[Len(ops)].op = "capture")
           /\ (mergeCalls > 0 => mergeArgs.slices = cm.slices)

\* a height of exactly two tile heights, the merge about to be called with two tiles
C24_Witness ==
    /\ path = "tiled"
    /\ pc = "cm_merge"
    /\ impl = "handler"
    /\ cm.max_height = 2 * window_height
    /\ Len(cm.slices) = 2
    /\ captures = 2

\* C25: on the tiled path the tile height is the configured constant
\* (window_height), whatever the stabilized height, and the first tile is
\* scrolled to in a window of (df_wd, window_height + outer minus inner height).
C25_TileHeightConstant ==
    /\ (path = "tiled" /\ pc \in {"cm_scroll", "cm_capture", "crs_body", "cm_merge"})
          => cm.viewport = window_height
    /\ (path = "tiled" /\ pc = "cm_scroll" /\ Len(cm.slices) = 0)
          => win = [w |-> df_wd, h |-> window_height + chrome]

\* C26: every resize of a request, the one of the height probe included, asks
\* for the configured width, and the merge is called with and returns an image
\* of that width.
C26_WidthFixed ==
    /\ \A k \in 1..Len(ops) : ops[k].op = "resize" => ops[k].x = df_wd
    /\ (pc = "p_scroll" /\ impl = "main") => win.w = df_wd
    /\ (Len(SelectSeq(ops, IsResize)) > 0 /\ pc # "idle") => win.w = df_wd
    /\ (mergeCalls > 0) => mergeArgs.width = df_wd
    /\ (path = "tiled" /\ pc = "done" /\ result.kind = "bytes") => result.w = df_wd

\* a tiled request of main.py that returned its composite
C26_Witness ==
    /\ impl = "main"
    /\ path = "tiled"
    /\ pc = "done"
    /\ outcome = "returned"
    /\ raised.kind = "none"
    /\ result.kind = "bytes"
    /\ result.w = MainDfWd
    /\ Len(result.pastes) = 2

\* C27: when get_max_height returns, the window has the size it had when
\* get_max_height was called.
C27_ProbeLeavesWindow ==
    (pc = "p_return") => win = probe.window

\* C28: once a remote call has raised on the tiled path the request is over:
\* the merge was not called, no capture was made beyond the tiles held, and
\* what the caller gets is no image.
C28_TiledFailureStops ==
    (path = "tiled" /\ raised.kind = "remote")
        => /\ pc = "done"
           /\ mergeCalls = 0
           /\ captures = Len(cm.slices)
           /\ Len(SelectSeq(ops, IsCapture)) = Len(cm.slices)
           /\ result.kind # "bytes"

\* the capture of the second tile raised after one tile was captured
C28_Witness ==
    /\ path = "tiled"
    /\ raised = [kind |-> "remote", at |-> "cm_capture"]
    /\ Len(cm.slices) = 1
    /\ pc = "done"
    /\ result = None

\* C29: a height reading is at least each of the six metrics, in both
\* implementations of the height read.
C29_ReadingIsMaxOfSix ==
    (pc = "height_done") => \A n \in MetricNames : reading >= metrics[n]

\* C30: a lookup makes at most 3 attempts; it returns the value of its first
\* successful attempt, having made no attempt after it, and after 3 failed
\* attempts it returns its initial default.
C30_LookupRetries ==
    /\ lookup.attempts <= 3
    /\ (lookup.succeeded # 0)
          => /\ lookup.pc \in {"return", "returned"}
             /\ lookup.attempts = lookup.succeeded
             /\ lookup.value = lookup.got
    /\ (lookup.pc \in {"return", "returned"} /\ lookup.succeeded = 0)
          => /\ lookup.attempts = 3
             /\ lookup.value = lookup_default(lookup.fn)
    /\ (lookup.pc = "loop") => (lookup.succeeded = 0 /\ lookup.attempts < 3)

\* get_page_source returned None after three failed attempts
C30_Witness ==
    /\ lookup.fn = "get_page_source"
    /\ lookup.pc = "returned"
    /\ lookup.attempts = 3
    /\ lookup.succeeded = 0
    /\ lookup.value.kind = "None"

\* the positions of the cut-and-merge path once its own probe has returned
TilingPcs ==
    {"cm_chrome", "cm_resize", "cm_viewport", "cm_scroll", "cm_capture", "crs_body",
     "crs_chrome", "crs_resize", "crs_scroll", "crs_capture", "cm_merge"}

\* C31: on the tiled path the height from which the tile count and the
\* remainder are computed is the stabilized height that was compared with the
\* threshold, also when the page reports another height in between.
C31_TilingUsesStrategistHeight ==
    (path = "tiled" /\ pc \in TilingPcs) => cm.max_height = max_height

\* C32: on the tiled path at least one tile of the tile loop has been captured
\* when the remainder step computes its scroll offset from the first tile and
\* when the merge is invoked.
C32_FirstTileExists ==
    (path = "tiled" /\ pc \in {"crs_body", "cm_merge"}) => Len(cm.slices) >= 1

\* C33: a call of BrowserHandler.get_screenshot raises or returns an object
\* is_valid_screenshot accepts; it never returns None or too small an object,
\* also when a remote call raised.
C33_HandlerReturnsValidOrRaises ==
    (impl = "handler" /\ pc = "done" /\ calls >= 1)
        => (outcome = "raised" \/ is_valid_screenshot(result))

\* ceil(a / b) for b > 0
Ceil(a, b) == (a + b - 1) \div b

\* the loop has been left: normally, or by an exception
AutoLeft == auto_loop.pc \in {"top", "buttons", "raised"}

\* max_height within maximum_length_image, and the passes within the bound
AutoBounded ==
    /\ (auto_loop.pc \notin {"idle", "viewport"})
          => auto_loop.max_height <= auto_loop.maximum_length_image
    /\ (auto_loop.view_port_height > 0)
          => auto_loop.passes <= Ceil(auto_loop.maximum_length_image,
                                      auto_loop.view_port_height)

\* C34: in the pre-scroll loop of __get_screenshot_using_automation max_height
\* never exceeds maximum_length_image, and with a positive viewport height the
\* loop is left after at most ceil(maximum_length_image / view_port_height)
\* passes, whatever scroll positions and page heights are reported.
C34_PreScrollLoopBounded ==
    /\ []AutoBounded
    /\ []((auto_loop.view_port_height > 0) => <>AutoLeft)

\* the loop ran its full ceil(maximum_length_image / view_port_height) passes
\* over a length the viewport does not divide, and was left by its test
C34_Witness ==
    /\ auto_loop.pc = "buttons"
    /\ auto_loop.view_port_height > 0
    /\ auto_loop.maximum_length_image % auto_loop.view_port_height # 0
    /\ auto_loop.max_height = auto_loop.maximum_length_image
    /\ auto_loop.offset >= auto_loop.max_height
    /\ auto_loop.passes = Ceil(auto_loop.maximum_length_image,
                               auto_loop.view_port_height)
    /\ auto_loop.passes >= 2
====
